---- MODULE Spec2Model ----
(***************************************************************************)
(* Lead-generation pipeline of ai_lead_generation_agent_ollama.py:          *)
(*   search_for_urls -> extract_user_info_from_urls (+ create_fallback_data) *)
(*   -> format_user_info_to_flattened_json, driven by main().               *)
(*                                                                         *)
(* Python values are tagged records so that values of different Python     *)
(* types can be compared: None, int, str, list, dict.  A str is a TLA+      *)
(* string, a list a sequence, a dict a function from its keys.             *)
(***************************************************************************)
EXTENDS Integers, Sequences, FiniteSets, TLC

VARIABLES pc, outcome, num_links, reply, urls, client, idx, behaviour,
          user_info_list, flattened_data

vars == <<pc, outcome, num_links, reply, urls, client, idx, behaviour,
          user_info_list, flattened_data>>

----------------------------------------------------------------------------
(* Python values *)

PyNone == [t |-> "None"]
PyInt(n) == [t |-> "int", v |-> n]
PyStr(s) == [t |-> "str", v |-> s]
PyList(q) == [t |-> "list", v |-> q]
PyDict(f) == [t |-> "dict", v |-> f]
EmptyDict == PyDict(<<>>)

\* True and False are the ints 1 and 0.
PyTrue == PyInt(1)
PyFalse == PyInt(0)

\* A missing attribute or key (hasattr(...) is False, the key is not in the dict).
Absent == [t |-> "absent"]

\* Python truthiness: bool(v).
Truthy(v) ==
    CASE v.t = "None" -> FALSE
      [] v.t = "int"  -> v.v # 0
      [] v.t = "str"  -> Len(v.v) > 0
      [] v.t = "list" -> Len(v.v) > 0
      [] v.t = "dict" -> DOMAIN v.v # {}
      [] OTHER        -> TRUE

\* d.get(k, default) on a dict d.
Get(d, k, default) == IF k \in DOMAIN d.v THEN d.v[k] ELSE default

\* A dict from a set of keys and a value for each key that is not Absent.
\* q without the later occurrences of an element.
RECURSIVE DedupGo(_, _, _)
DedupGo(q, i, out) ==
    IF i > Len(q) THEN out
    ELSE IF \E k \in 1..Len(out) : out[k] = q[i] THEN DedupGo(q, i + 1, out)
    ELSE DedupGo(q, i + 1, Append(out, q[i]))

MkDict(f) == PyDict([k \in {x \in DOMAIN f : f[x] # Absent} |-> f[k]])

Min(a, b) == IF a <= b THEN a ELSE b

\* All sequences over S of length at most n.
SeqsUpTo(S, n) == UNION {[1..k -> S] : k \in 0..n}

----------------------------------------------------------------------------
(* create_fallback_data *)

\* The slice s[:n].
Take(s, n) == SubSeq(s, 1, Min(n, Len(s)))

\* s.split('/'): the segments between the separators, left to right.
RECURSIVE SplitGo(_, _, _, _)
SplitGo(s, i, cur, out) ==
    IF i > Len(s) THEN Append(out, cur)
    ELSE IF SubSeq(s, i, i) = "/" THEN SplitGo(s, i + 1, "", Append(out, cur))
    ELSE SplitGo(s, i + 1, cur \o SubSeq(s, i, i), out)

Split(s) == SplitGo(s, 1, "", <<>>)

\* x[-1] of a non-empty sequence.
LastOf(q) == q[Len(q)]

FallbackTruncation == 15

\* Mutant: the slice is one character short.
FallbackUsername_OneShort(url) ==
    "User from " \o Take(LastOf(Split(url)), FallbackTruncation - 1)

FallbackUsername(url) == "User from " \o Take(LastOf(Split(url)), FallbackTruncation)

create_fallback_data(url) ==
    PyList(<< PyDict([username  |-> PyStr(FallbackUsername(url)),
                  bio       |-> PyStr("Bio not available - extraction failed"),
                  post_type |-> PyStr("question"),
                  timestamp |-> PyStr("2024-01-01"),
                  upvotes   |-> PyInt(0),
                  links     |-> PyList(<<>>)]) >>)

----------------------------------------------------------------------------
(* format_user_info_to_flattened_json *)

\* ", ".join(q) for a sequence q of str values.
RECURSIVE JoinGo(_, _)
JoinGo(q, i) ==
    IF i > Len(q) THEN ""
    ELSE IF i = Len(q) THEN q[i].v
    ELSE q[i].v \o ", " \o JoinGo(q, i + 1)

\* ", ".join(x): a TypeError unless x is a list of str.
JoinRaises(x) == x.t # "list" \/ \E i \in 1..Len(x.v) : x.v[i].t # "str"

Join(x) == PyStr(JoinGo(x.v, 1))

\* The body of the inner loop, lines 141-150: interaction.get needs a dict
\* (AttributeError otherwise), the join a list of str (TypeError otherwise).
RowRaises(interaction) ==
    \/ interaction.t # "dict"
    \/ JoinRaises(Get(interaction, "links", PyList(<<>>)))

LinksDefault == PyList(<<>>)

FlattenRow(website_url, interaction) ==
    "Website URL" :> PyStr(website_url) @@
    "Username"    :> Get(interaction, "username", PyStr("")) @@
    "Bio"         :> Get(interaction, "bio", PyStr("")) @@
    "Post Type"   :> Get(interaction, "post_type", PyStr("")) @@
    "Timestamp"   :> Get(interaction, "timestamp", PyStr("")) @@
    "Upvotes"     :> Get(interaction, "upvotes", PyInt(0)) @@
    "Links"       :> Join(Get(interaction, "links", LinksDefault))

\* The loops of lines 136-150 from page i, interaction j on, rows collected so far.
RECURSIVE FlattenGo(_, _, _, _)
FlattenGo(pages, i, j, rows) ==
    IF i > Len(pages) THEN [raised |-> FALSE, rows |-> rows]
    ELSE IF j > Len(pages[i].user_info.v) THEN FlattenGo(pages, i + 1, 1, rows)
    ELSE IF RowRaises(pages[i].user_info.v[j]) THEN [raised |-> TRUE, rows |-> <<>>]
    ELSE FlattenGo(pages, i, j + 1,
                   Append(rows, FlattenRow(pages[i].website_url, pages[i].user_info.v[j])))

\* Mutant: a row equal to an earlier row is dropped.
format_user_info_to_flattened_json_Dedup(pages) ==
    LET res == FlattenGo(pages, 1, 1, <<>>) IN
    [raised |-> res.raised, rows |-> DedupGo(res.rows, 1, <<>>)]

format_user_info_to_flattened_json(pages) == FlattenGo(pages, 1, 1, <<>>)

----------------------------------------------------------------------------
(* search_for_urls *)

HttpOk == 200

\* response.json() raised: the body is not JSON.
NotJson == [t |-> "notjson"]

\* requests.post raised (connection error, timeout).
TransportError == [transport |-> "error", status |-> 0, body |-> NotJson]

HttpReply(status, body) == [transport |-> "ok", status |-> status, body |-> body]

\* result["url"] for one result item: a TypeError or KeyError unless the item is
\* a dict with a url.
ItemRaises(item) == item.t # "dict" \/ "url" \notin DOMAIN item.v

\* Mutant: a URL the response repeats is returned once.
UrlsOf_Unique(results) ==
    DedupGo([i \in 1..Len(results.v) |-> results.v[i].v["url"].v], 1, <<>>)

\* [result["url"] for result in results], line 42.
UrlsOf(results) == [i \in 1..Len(results.v) |-> results.v[i].v["url"].v]

ResultsRaise(results) ==
    results.t # "list" \/ \E i \in 1..Len(results.v) : ItemRaises(results.v[i])

\* Lines 37-43.  raised: an exception leaves the function (there is no try).
search_for_urls(r) ==
    IF r.transport = "error" THEN [raised |-> TRUE, urls |-> <<>>]
    ELSE IF r.status # HttpOk THEN [raised |-> FALSE, urls |-> <<>>]
    ELSE IF r.body = NotJson THEN [raised |-> TRUE, urls |-> <<>>]
    ELSE IF r.body.t # "dict" THEN [raised |-> TRUE, urls |-> <<>>]
    ELSE IF ~Truthy(Get(r.body, "success", PyNone)) THEN [raised |-> FALSE, urls |-> <<>>]
    ELSE LET results == Get(r.body, "data", PyList(<<>>)) IN
         IF ResultsRaise(results) THEN [raised |-> TRUE, urls |-> <<>>]
         ELSE [raised |-> FALSE, urls |-> UrlsOf(results)]

----------------------------------------------------------------------------
(* extract_user_info_from_urls *)

\* dict(response) raised although the response has an items attribute.
Unmappable == [t |-> "unmappable"]

\* firecrawl_app.extract raised.
ExtractRaised == [kind |-> "raise", data |-> Absent, attrs |-> Absent, items |-> Absent]

\* A response object: its data attribute, its __dict__ and what dict(response)
\* gives, each Absent when the response has no such attribute.
Response(data, attrs, items) ==
    [kind |-> "response", data |-> data, attrs |-> attrs, items |-> items]

\* Lines 65-77: the branch is chosen by the shape of the response, and the chosen
\* branch alone gives extracted_data.
UnwrapRaises(b) ==
    /\ ~(b.data # Absent /\ Truthy(b.data))
    /\ b.attrs = Absent
    /\ b.items = Unmappable

\* Mutant: a branch that yields no mapping falls through to the next one.
Unwrap_FallThrough(b) ==
    LET a == IF b.data = Absent \/ ~Truthy(b.data) THEN EmptyDict
             ELSE IF b.data.t = "list" /\ Len(b.data.v) > 0
             THEN IF b.data.v[1].t = "dict" THEN b.data.v[1] ELSE EmptyDict
             ELSE IF b.data.t = "dict" THEN b.data ELSE EmptyDict
    IN IF Truthy(a) THEN a
       ELSE IF b.attrs # Absent /\ Truthy(b.attrs) THEN b.attrs
       ELSE IF b.items # Absent THEN b.items
       ELSE EmptyDict

Unwrap(b) ==
    IF b.data # Absent /\ Truthy(b.data)
    THEN IF b.data.t = "list" /\ Len(b.data.v) > 0
         THEN IF b.data.v[1].t = "dict" THEN b.data.v[1] ELSE EmptyDict
         ELSE IF b.data.t = "dict" THEN b.data ELSE EmptyDict
    ELSE IF b.attrs # Absent THEN b.attrs
    ELSE IF b.items # Absent THEN b.items
    ELSE EmptyDict

\* Mutant: an interactions field is taken as it is, empty or not.
PageInteractions_KeepsEmpty(url, b) ==
    IF b.kind = "raise" \/ UnwrapRaises(b) THEN create_fallback_data(url)
    ELSE LET extracted_data == Unwrap(b) IN
         IF Truthy(extracted_data) /\ "interactions" \in DOMAIN extracted_data.v
            /\ extracted_data.v["interactions"].t = "list"
         THEN extracted_data.v["interactions"]
         ELSE create_fallback_data(url)

\* Lines 81-99, and the handler of lines 101-107 for anything raised in the try.
PageInteractions(url, b) ==
    IF b.kind = "raise" \/ UnwrapRaises(b) THEN create_fallback_data(url)
    ELSE LET extracted_data == Unwrap(b) IN
         IF Truthy(extracted_data) /\ "interactions" \in DOMAIN extracted_data.v
         THEN LET interactions == extracted_data.v["interactions"] IN
              IF Truthy(interactions) THEN interactions ELSE create_fallback_data(url)
         ELSE create_fallback_data(url)

\* Mutant: the handler of line 101 reports the error and appends nothing.
ProcessUrl_NoFallbackOnRaise(url, b) ==
    IF b.kind = "raise" THEN <<>>
    ELSE << [website_url |-> url, user_info |-> PageInteractions(url, b)] >>

\* What one iteration of the loop of line 50 appends to user_info_list.
ProcessUrl(url, b) == << [website_url |-> url, user_info |-> PageInteractions(url, b)] >>

----------------------------------------------------------------------------
(* Inputs *)

MaxLinkOption == 15

DefaultLinkIndex == 3

\* The options of the "Number of links to search" select box, line 199.
LinkOptions == 1..MaxLinkOption

MaxResults == 2

MaxUrls == 2

MaxPages == 2

MaxInteractions == 2

MaxLinks == 2

UrlPool ==
    { "https://quora.com/topic/AI-video-editing",
      "https://quora.com/q/",
      "quora",
      "https://q.com/abcdefghijklmno" }

FullInteraction ==
    PyDict([username  |-> PyStr("alice"),
            bio       |-> PyStr("founder"),
            post_type |-> PyStr("answer"),
            timestamp |-> PyStr("2024-05-01"),
            upvotes   |-> PyInt(7),
            links     |-> PyList(<<PyStr("https://a.io"), PyStr("https://b.io")>>)])

MinimalInteraction == PyDict([username |-> PyStr("bob")])

NullLinksInteraction == PyDict([username |-> PyStr("carol"), links |-> PyNone])

\* The result items of a search reply: with a url, or without one.
ResultItems ==
    {PyDict([url |-> PyStr(u)]) : u \in UrlPool} \cup {PyDict([title |-> PyStr("untitled")])}

ReplyBodies ==
    {NotJson, PyList(<<>>)} \cup
    { MkDict([success |-> s, data |-> d]) :
        s \in {Absent, PyFalse, PyTrue},
        d \in {Absent, PyNone} \cup {PyList(q) : q \in SeqsUpTo(ResultItems, MaxResults)} }

SearchReplies ==
    {TransportError} \cup
    {HttpReply(st, b) : st \in {HttpOk, 401}, b \in ReplyBodies}

\* The values of the interactions key of an extraction payload.
InteractionsValues ==
    { Absent, PyNone, PyList(<<>>),
      PyList(<<FullInteraction>>),
      PyList(<<FullInteraction, MinimalInteraction>>),
      PyList(<<PyStr("not a mapping")>>),
      PyList(<<NullLinksInteraction>>) }

PayloadMappings ==
    {MkDict([interactions |-> p]) : p \in InteractionsValues}
    \cup {PyDict([error |-> PyStr("timeout")])}

RealMapping == PyDict([interactions |-> PyList(<<FullInteraction>>)])

\* A data attribute that carries no payload: missing, None, a string, a list of strings.
OtherData == {Absent, PyNone, PyStr("n/a"), PyList(<<PyStr("n/a")>>)}

Behaviours ==
    {ExtractRaised}
    \cup { Response(d, a, Absent) :
             d \in PayloadMappings \cup {PyList(<<m>>) : m \in PayloadMappings},
             a \in {Absent, RealMapping} }
    \cup { Response(d, a, i) :
             d \in OtherData, a \in PayloadMappings, i \in {Absent, RealMapping} }
    \cup { Response(d, Absent, i) :
             d \in OtherData, i \in PayloadMappings \cup {Absent, Unmappable} }

----------------------------------------------------------------------------
(* main: one click of "Generate Leads" *)

\* The select box of lines 197-202 starts at options[3].
Init ==
    /\ pc = "idle" /\ outcome = "none"
    /\ num_links = DefaultLinkIndex + 1
    /\ reply = Absent /\ urls = <<>>
    /\ client = "none" /\ idx = 0 /\ behaviour = Absent /\ user_info_list = <<>>
    /\ flattened_data = <<>>

\* Lines 214-216: both the API key and the query must be non-empty.
GenerateLeads ==
    /\ pc = "idle"
    /\ \E firecrawl_api_key \in {"", "fc-key"}, user_query \in {"", "leads for AI video editing"} :
         IF firecrawl_api_key = "" \/ user_query = ""
         THEN pc' = "done" /\ outcome' = "validation_error"
         ELSE pc' = "condense" /\ outcome' = outcome
    /\ UNCHANGED <<num_links, reply, urls, client, idx, behaviour, user_info_list,
                   flattened_data>>

\* Lines 218-221: the generation service answers or raises; nothing catches it.
Condense ==
    /\ pc = "condense"
    /\ \E answered \in BOOLEAN :
         IF answered
         THEN pc' = "search" /\ outcome' = outcome
         ELSE pc' = "done" /\ outcome' = "exception"
    /\ UNCHANGED <<num_links, reply, urls, client, idx, behaviour, user_info_list,
                   flattened_data>>

\* Lines 223-226 and 264-265: the search and the test of its result.
Search ==
    /\ pc = "search"
    /\ \E r \in SearchReplies :
         LET res == search_for_urls(r) IN
         /\ reply' = r
         /\ IF res.raised
            THEN pc' = "done" /\ outcome' = "exception" /\ urls' = urls
            ELSE /\ urls' = res.urls
                 /\ IF Len(res.urls) > 0
                    THEN pc' = "construct" /\ outcome' = outcome
                    ELSE pc' = "done" /\ outcome' = "no_urls"
    /\ UNCHANGED <<num_links, client, idx, behaviour, user_info_list, flattened_data>>

\* Lines 46-47: the client is constructed before the try of line 49.
ConstructClient ==
    /\ pc = "construct"
    /\ \E constructed \in BOOLEAN :
         IF constructed
         THEN pc' = "extract" /\ client' = "ok" /\ idx' = 0 /\ outcome' = outcome
         ELSE pc' = "done" /\ client' = "failed" /\ idx' = idx /\ outcome' = "exception"
    /\ user_info_list' = <<>>
    /\ UNCHANGED <<num_links, reply, urls, behaviour, flattened_data>>

\* Lines 50-51: the loop takes the next URL.
ForUrl ==
    /\ pc = "extract"
    /\ idx < Len(urls)
    /\ idx' = idx + 1
    /\ behaviour' = Absent
    /\ pc' = "processing"
    /\ UNCHANGED <<outcome, num_links, reply, urls, client, user_info_list, flattened_data>>

\* Lines 53-107: the try of one URL and its handler.  The handler of lines
\* 109-116 is entered only by an exception raised outside this try (the
\* narration of line 51, the handler of line 101 itself), which no behaviour of
\* the extraction service causes for a str URL.
ExtractUrl ==
    /\ pc = "processing"
    /\ \E b \in Behaviours :
         /\ behaviour' = b
         /\ user_info_list' = user_info_list \o ProcessUrl(urls[idx], b)
    /\ pc' = "extract"
    /\ UNCHANGED <<outcome, num_links, reply, urls, client, idx, flattened_data>>

\* Line 118: the loop is over and the list is returned.
ExtractReturn ==
    /\ pc = "extract"
    /\ idx >= Len(urls)
    /\ pc' = "formatting"
    /\ UNCHANGED <<outcome, num_links, reply, urls, client, idx, behaviour, user_info_list,
                   flattened_data>>

\* Lines 234-263: the flattening and what main shows.
Flatten ==
    /\ pc = "formatting"
    /\ LET res == format_user_info_to_flattened_json(user_info_list) IN
         IF res.raised
         THEN pc' = "done" /\ outcome' = "exception" /\ flattened_data' = flattened_data
         ELSE /\ pc' = "done"
              /\ flattened_data' = res.rows
              /\ outcome' = IF Len(res.rows) > 0 THEN "table" ELSE "no_rows"
    /\ UNCHANGED <<num_links, reply, urls, client, idx, behaviour, user_info_list>>

Next ==
    \/ GenerateLeads
    \/ Condense
    \/ Search
    \/ ConstructClient
    \/ ForUrl
    \/ ExtractUrl
    \/ ExtractReturn
    \/ Flatten

Spec == Init /\ [][Next]_vars

----------------------------------------------------------------------------
(* search_for_urls alone, for every option of the select box *)

InitSearch ==
    /\ pc = "search" /\ outcome = "none"
    /\ num_links \in LinkOptions
    /\ reply = Absent /\ urls = <<>>
    /\ client = "none" /\ idx = 0 /\ behaviour = Absent /\ user_info_list = <<>>
    /\ flattened_data = <<>>

NextSearch == Search

SpecSearch == InitSearch /\ [][NextSearch]_vars

----------------------------------------------------------------------------
(* extract_user_info_from_urls alone, for every list of URLs *)

InitExtract ==
    /\ pc = "construct" /\ outcome = "none"
    /\ num_links = DefaultLinkIndex + 1
    /\ reply = Absent
    /\ urls \in SeqsUpTo(UrlPool, MaxUrls)
    /\ client = "none" /\ idx = 0 /\ behaviour = Absent /\ user_info_list = <<>>
    /\ flattened_data = <<>>

NextExtract ==
    \/ ConstructClient
    \/ ForUrl
    \/ ExtractUrl
    \/ ExtractReturn

SpecExtract == InitExtract /\ [][NextExtract]_vars

----------------------------------------------------------------------------
(* format_user_info_to_flattened_json alone, for every list of page results *)

PageUrls == {"https://quora.com/q/", "quora"}

LinkPool == {PyStr("https://a.io"), PyStr("https://b.io")}

\* Lists of pages of well-formed interactions.
PageLists ==
    SeqsUpTo({ [website_url |-> u, user_info |-> PyList(q)] :
                 u \in PageUrls,
                 q \in SeqsUpTo({FullInteraction, MinimalInteraction}, MaxInteractions) },
             MaxPages)

\* One interaction with each field missing, null or set, and entries that are no mapping.
SingleInteractions ==
    { MkDict([username |-> u, bio |-> b, post_type |-> p, timestamp |-> ts,
              upvotes |-> n, links |-> l]) :
        u \in {Absent, PyNone, PyStr("alice")},
        b \in {Absent, PyNone, PyStr("founder")},
        p \in {Absent, PyStr("answer")},
        ts \in {Absent, PyStr("2024-05-01")},
        n \in {Absent, PyNone, PyInt(7)},
        l \in {Absent, PyNone} \cup {PyList(q) : q \in SeqsUpTo(LinkPool, MaxLinks)} }
    \cup {PyStr("not a mapping"), PyNone}

SinglePages ==
    { << [website_url |-> "quora", user_info |-> PyList(<<e>>)] >> : e \in SingleInteractions }

InitFlatten ==
    /\ pc = "formatting" /\ outcome = "none"
    /\ num_links = DefaultLinkIndex + 1
    /\ reply = Absent /\ urls = <<>>
    /\ client = "none" /\ idx = 0 /\ behaviour = Absent
    /\ user_info_list \in PageLists \cup SinglePages
    /\ flattened_data = <<>>

NextFlatten == Flatten

SpecFlatten == InitFlatten /\ [][NextFlatten]_vars

----------------------------------------------------------------------------
(* Properties of extract_user_info_from_urls *)

\* The page result of the URL the loop handled last.
LastPage == user_info_list[Len(user_info_list)]

\* A behaviour has been drawn for urls[idx] and its page result appended.
Processed == pc \in {"extract", "formatting"} /\ behaviour # Absent /\ idx >= 1

FallbackBio == "Bio not available - extraction failed"

\* The trailing path segment of u, stated without split: the longest suffix
\* free of "/".
TrailingSegment(u) ==
    LET k == CHOOSE k \in 1..(Len(u) + 1) :
                 /\ \A j \in k..Len(u) : SubSeq(u, j, j) # "/"
                 /\ k = 1 \/ SubSeq(u, k - 1, k - 1) = "/"
    IN SubSeq(u, k, Len(u))

ExpectedFallback(u) ==
    LET seg == TrailingSegment(u) IN
    PyDict([username  |-> PyStr("User from " \o
                                (IF Len(seg) <= 15 THEN seg ELSE SubSeq(seg, 1, 15))),
            bio       |-> PyStr(FallbackBio),
            post_type |-> PyStr("question"),
            timestamp |-> PyStr("2024-01-01"),
            upvotes   |-> PyInt(0),
            links     |-> PyList(<<>>)])

IsFallbackPage(page) ==
    page.user_info = PyList(<<ExpectedFallback(page.website_url)>>)

C2_ClientFailureDegrades ==
    (client = "failed" /\ Len(urls) > 0) =>
        /\ outcome # "exception"
        /\ Len(user_info_list) = Len(urls)
        /\ \A k \in 1..Len(urls) :
             /\ user_info_list[k].website_url = urls[k]
             /\ IsFallbackPage(user_info_list[k])

\* The recovered mapping carries no interactions: processing raised, or the
\* mapping is empty, or has no interactions key, or an empty value under it.
NoInteractions(b) ==
    \/ b.kind = "raise"
    \/ UnwrapRaises(b)
    \/ LET m == Unwrap(b) IN
         \/ m = EmptyDict
         \/ "interactions" \notin DOMAIN m.v
         \/ m.v["interactions"] \in {PyNone, PyList(<<>>)}

\* C5: for every URL whose recovered mapping is absent, empty, without an
\* interactions field or with an empty one, or whose processing raises, the page
\* result is exactly one fallback record, and that record is fixed by the URL
\* alone: "User from " and the first 15 characters of the trailing path segment,
\* the sentinel bio, "question", "2024-01-01", 0 upvotes, no links.
C5_FallbackRecord ==
    (Processed /\ NoInteractions(behaviour)) =>
        /\ LastPage.website_url = urls[idx]
        /\ LastPage.user_info = PyList(<<ExpectedFallback(urls[idx])>>)

\* A response whose interactions are an empty list, for a URL ending in "/".
C5_Witness ==
    /\ Processed
    /\ behaviour.kind = "response"
    /\ behaviour.data = PyDict([interactions |-> PyList(<<>>)])
    /\ urls[idx] = "https://quora.com/q/"
    /\ LastPage.user_info.v[1].v["username"] = PyStr("User from ")

AiVideoUrl == "https://quora.com/topic/AI-video-editing"

ExtractionUnavailable == Processed /\ behaviour = ExtractRaised /\ urls[idx] = AiVideoUrl

\* C9 as stated: for https://quora.com/topic/AI-video-editing with extraction
\* unavailable the fallback username is "User from AI-video-editi".
C9_UsernameAsStated ==
    ExtractionUnavailable =>
        LastPage.user_info.v[1].v["username"] = PyStr("User from AI-video-editi")

\* C9 (amended): for https://quora.com/topic/AI-video-editing with extraction
\* unavailable the fallback username is "User from AI-video-editin": the first
\* 15 of the 16 characters of the trailing path segment.
C9_UsernameFifteenChars ==
    ExtractionUnavailable =>
        /\ Len(LastPage.user_info.v) = 1
        /\ LastPage.user_info.v[1].v["username"] = PyStr("User from AI-video-editin")
        /\ Len(LastPage.user_info.v[1].v["username"].v) = Len("User from ") + 15

C9_Witness == ExtractionUnavailable /\ LastPage.website_url = AiVideoUrl

\* What each unwrapping strategy yields on its own, Absent when it yields no mapping.
StrategyA(b) ==
    IF b.data = Absent \/ ~Truthy(b.data) THEN Absent
    ELSE IF b.data.t = "dict" THEN b.data
    ELSE IF b.data.t = "list" /\ b.data.v[1].t = "dict" THEN b.data.v[1]
    ELSE Absent

StrategyB(b) == b.attrs

StrategyC(b) == IF b.items = Unmappable THEN Absent ELSE b.items

\* m is a mapping with a non-empty interactions field.
Usable(m) ==
    /\ m # Absent
    /\ "interactions" \in DOMAIN m.v
    /\ Truthy(m.v["interactions"])

FirstUsable(b) ==
    IF Usable(StrategyA(b)) THEN StrategyA(b)
    ELSE IF Usable(StrategyB(b)) THEN StrategyB(b)
    ELSE IF Usable(StrategyC(b)) THEN StrategyC(b)
    ELSE Absent

Selected(b) ==
    IF b.data # Absent /\ Truthy(b.data) THEN StrategyA(b)
    ELSE IF b.attrs # Absent THEN StrategyB(b)
    ELSE StrategyC(b)

----------------------------------------------------------------------------
(* Properties of search_for_urls *)

Searched == pc # "search" /\ reply # Absent

\* The result items of a reply body, <<>> when it has no data field.
ItemsOf(r) == Get(r.body, "data", PyList(<<>>))

\* The reply is the success response of the search service: status 200 and a
\* JSON object with a true success field whose data, if any, is a list of
\* items with a url each.
Succeeded(r) ==
    /\ r.transport = "ok"
    /\ r.status = 200
    /\ r.body # NotJson
    /\ r.body.t = "dict"
    /\ "success" \in DOMAIN r.body.v
    /\ r.body.v["success"] = PyTrue
    /\ ItemsOf(r).t = "list"
    /\ \A i \in 1..Len(ItemsOf(r).v) :
         ItemsOf(r).v[i].t = "dict" /\ "url" \in DOMAIN ItemsOf(r).v[i].v

\* C3: a search-service failure (transport error, status other than 200, a body
\* of another shape, success absent or false) is never an exception: the search
\* returns the empty sequence and the run ends with "no relevant URLs found".
C3_SearchFailureIsEmpty ==
    (Searched /\ ~Succeeded(reply)) => (outcome = "no_urls" /\ urls = <<>>)

----------------------------------------------------------------------------
(* Properties of format_user_info_to_flattened_json *)

Flattened == pc = "done" /\ client = "none" /\ reply = Absent

\* An interaction as the data model has it: a mapping whose links, when
\* present, are a list of strings.
WellFormed(e) ==
    /\ e.t = "dict"
    /\ "links" \in DOMAIN e.v =>
         /\ e.v["links"].t = "list"
         /\ \A i \in 1..Len(e.v["links"].v) : e.v["links"].v[i].t = "str"

AllWellFormed(pages) ==
    \A i \in 1..Len(pages) : \A j \in 1..Len(pages[i].user_info.v) :
        WellFormed(pages[i].user_info.v[j])

\* The number of interactions of the pages before page i.
RECURSIVE RowsBefore(_, _)
RowsBefore(pages, i) ==
    IF i <= 1 THEN 0 ELSE RowsBefore(pages, i - 1) + Len(pages[i - 1].user_info.v)

\* C6: no filtering, sorting or deduplication: the number of rows is the sum of
\* the interaction counts of the page results, and the rows come in page order
\* and, within a page, in interaction order, each with the website_url of its
\* page.
C6_RowPerInteraction ==
    (Flattened /\ AllWellFormed(user_info_list)) =>
        /\ outcome # "exception"
        /\ Len(flattened_data) = RowsBefore(user_info_list, Len(user_info_list) + 1)
        /\ \A i \in 1..Len(user_info_list) :
             \A j \in 1..Len(user_info_list[i].user_info.v) :
                LET row == flattened_data[RowsBefore(user_info_list, i) + j]
                    e   == user_info_list[i].user_info.v[j]
                IN /\ row["Website URL"] = PyStr(user_info_list[i].website_url)
                   /\ ("username" \in DOMAIN e.v) => row["Username"] = e.v["username"]
                   /\ ("upvotes" \in DOMAIN e.v) => row["Upvotes"] = e.v["upvotes"]

\* Two interactions for the first page and one for the second, of the same
\* URL: three rows.
C6_Witness ==
    /\ Flattened
    /\ Len(user_info_list) = 2
    /\ user_info_list[1].user_info = PyList(<<FullInteraction, MinimalInteraction>>)
    /\ user_info_list[2].user_info = PyList(<<FullInteraction>>)
    /\ user_info_list[1].website_url = user_info_list[2].website_url
    /\ Len(flattened_data) = 3

RowFields == {"Username", "Bio", "Post Type", "Timestamp", "Upvotes", "Links"}

\* The key of the interaction a column is taken from.
KeyOf(column) ==
    CASE column = "Username"  -> "username"
      [] column = "Bio"       -> "bio"
      [] column = "Post Type" -> "post_type"
      [] column = "Timestamp" -> "timestamp"
      [] column = "Upvotes"   -> "upvotes"
      [] column = "Links"     -> "links"

\* C7: for every interaction mapping, present fields are copied unchanged, an
\* absent upvotes becomes 0, an absent links or string field the empty string,
\* a links sequence its elements joined by ", ", and no row field is None.
C7_RowFields ==
    (Flattened /\ \A i \in 1..Len(user_info_list) :
                     \A j \in 1..Len(user_info_list[i].user_info.v) :
                        user_info_list[i].user_info.v[j].t = "dict") =>
        /\ outcome # "exception"
        /\ \A i \in 1..Len(user_info_list) :
             \A j \in 1..Len(user_info_list[i].user_info.v) :
                LET row == flattened_data[RowsBefore(user_info_list, i) + j]
                    e   == user_info_list[i].user_info.v[j]
                IN /\ \A c \in RowFields \ {"Links"} :
                        row[c] = IF KeyOf(c) \in DOMAIN e.v THEN e.v[KeyOf(c)]
                                 ELSE IF c = "Upvotes" THEN PyInt(0) ELSE PyStr("")
                   /\ "links" \notin DOMAIN e.v => row["Links"] = PyStr("")
                   /\ \A c \in RowFields : row[c] # PyNone

----------------------------------------------------------------------------
(* Properties of the run *)

\* C4: once the query is condensed and extraction has started, no per-URL
\* problem (a failed extraction, a malformed response, interactions that are no
\* mappings or have null fields, no interactions) stops the run: extraction and
\* flattening complete and the run ends with a table.
C4_RunEndsWithTable ==
    /\ client = "ok" => outcome # "exception"
    /\ (client = "ok" /\ pc = "done") => outcome = "table"

====
